---- MODULE Spec2Model ----
(***************************************************************************)
(* Model of Sound::save_to_wav (src/src/sound.rs, lines 669-758) together  *)
(* with the native calls it makes (FMOD_Sound_GetLength, _GetFormat,       *)
(* _GetDefaults, _Lock, _Unlock) and the buffered file sink it writes to.  *)
(*                                                                         *)
(* The sink is modelled at the level of the calls the code makes on it:    *)
(* every buf.write_* call either appends its bytes or returns Err, and     *)
(* .unwrap() on Err is a task failure (pc = "panicked").                   *)
(* Integers of the header are byte tuples (least significant byte first),  *)
(* so that 16- and 32-bit wrapping arithmetic is computed at its width.    *)
(***************************************************************************)
EXTENDS Integers, Sequences, FiniteSets, TLC

VARIABLES
    pc,            \* position inside save_to_wav
    len_bytes,     \* let len_bytes (line 674)
    channels,      \* let mut channels (line 671)
    bits,          \* let mut bits (line 672)
    rate,          \* let mut rate (line 673), in half-hertz units
    len1, len2,    \* let mut len1/len2 (lines 678-679)
    ptr1, ptr2,    \* let mut ptr1/ptr2 (lines 680-681)
    fmt_chunk,     \* let fmt_chunk (line 690)
    data_chunk,    \* let data_chunk (line 702)
    wav_header,    \* let wav_header (line 708)
    hdr_idx,       \* number of header fields already written (lines 722-747)
    file_created,  \* File::create succeeded (line 716)
    file,          \* bytes accepted by the sink so far
    seg1, seg2,    \* the two segments FMOD_Sound_Lock handed out
    lock_calls,    \* arguments of every FMOD_Sound_Lock call
    lock_res,      \* result of the FMOD_Sound_Lock call
    unlock_calls,  \* arguments of every FMOD_Sound_Unlock call
    unlock_res,    \* result of the FMOD_Sound_Unlock call
    write_failed,  \* some buf.write_* call returned Err
    read_outside,  \* the payload slice covered bytes outside segment 1
    result,        \* value returned by save_to_wav
    query_res,     \* results of the native queries made so far, in order
    trace,         \* the calls made so far, in order
    \* -- the wrappers and the native objects behind them --
    sounds,        \* the Sound wrappers built so far
    groups,        \* the SoundGroup wrappers built so far
    created,       \* native handles the engine has created
    sub_of,        \* native sound -> the sub-sound the engine links to it
    group_of,      \* native sound -> the sound group the engine put it in
    releases,      \* native handle -> native release calls that returned Ok
    bad_release,   \* a handle was released while something referred to it
    last_rel,      \* the last Sound::release / SoundGroup::release call
    \* -- user data of one Sound --
    ud_slot,       \* the native user-data slot of the sound
    ud_field,      \* self.user_data.user_data
    ud_last,       \* the last set_user_data / get_user_data call
    ud_prev,       \* the call before it
    \* -- play_to_the_end --
    p_pc,          \* position inside play_to_the_end
    p_remaining,   \* polls the channel will still answer "playing"
    p_play_res,    \* result of self.play()
    p_polls,       \* results of the is_playing calls, in order
    p_chan_rel,    \* number of chan.release() calls
    p_result       \* value returned by play_to_the_end

wav_vars == <<pc, len_bytes, channels, bits, rate, len1, len2, ptr1, ptr2,
          fmt_chunk, data_chunk, wav_header, hdr_idx, file_created, file,
          seg1, seg2, lock_calls, lock_res, unlock_calls, unlock_res,
          write_failed, read_outside, result, query_res, trace>>
life_vars == <<sounds, groups, created, sub_of, group_of, releases,
               bad_release, last_rel>>
ud_vars == <<ud_slot, ud_field, ud_last, ud_prev>>
play_vars == <<p_pc, p_remaining, p_play_res, p_polls, p_chan_rel, p_result>>
non_wav_vars == <<life_vars, ud_vars, play_vars>>
vars == <<wav_vars, life_vars, ud_vars, play_vars>>

(***************************************************************************)
(* Bounds of the model.                                                    *)
(***************************************************************************)
MaxLen == 3

(***************************************************************************)
(* Values the native library can hand to the wrapper.                      *)
(***************************************************************************)
\* enums::Result values: Ok and two of the error codes.
FmodErrors == {"ErrInvalidHandle", "ErrNotReady"}
FmodResults == {"Ok"} \cup FmodErrors

\* Channel counts (i32) FMOD_Sound_GetFormat may report.
ChannelValues == {0, 1, 2, 4096, 65537}
\* Bit depths (i32) FMOD_Sound_GetFormat may report.
BitsValues == {8, 16, 12}
\* Default frequencies (f32) FMOD_Sound_GetDefaults may report, in units of
\* half a hertz: 0.0, 8000.0, 44100.0, 44100.5, -1.0 and 134217728.0 (2^27).
RateValues == {0, 16000, 88200, 88201, -2, 268435456}

\* Byte values found in sample memory.
MemBytes == {0, 165}
NullPtr == "null"

\* All byte sequences of length n over MemBytes.
ByteSeqs(n) == [1..n -> MemBytes]

(***************************************************************************)
(* Fixed-width integers as little-endian byte tuples.                      *)
(***************************************************************************)
\* write_le_u16 / `as u16`: the low 16 bits, least significant byte first.
LE16(n) == <<n % 256, (n \div 256) % 256>>
\* write_le_u32 / write_le_i32 / `as u32`: the low 32 bits (two's complement).
LE32(n) == <<n % 256, (n \div 256) % 256, (n \div 65536) % 256,
             (n \div 16777216) % 256>>

\* Value of a 2-byte little-endian unsigned field.
DecodeU16(b) == b[1] + 256 * b[2]
\* Value of a 4-byte little-endian signed (i32) field.
DecodeI32(b) == b[1] + 256 * b[2] + 65536 * b[3]
                + 16777216 * (IF b[4] >= 128 THEN b[4] - 256 ELSE b[4])

\* Wrapping 32-bit addition on byte tuples.
AddW32(a, b) ==
    LET s1 == a[1] + b[1]
        s2 == a[2] + b[2] + (s1 \div 256)
        s3 == a[3] + b[3] + (s2 \div 256)
        s4 == a[4] + b[4] + (s3 \div 256)
    IN  <<s1 % 256, s2 % 256, s3 % 256, s4 % 256>>

\* Wrapping 32-bit multiplication on byte tuples.
MulW32(a, b) ==
    LET c1 == a[1] * b[1]
        c2 == a[1] * b[2] + a[2] * b[1] + (c1 \div 256)
        c3 == a[1] * b[3] + a[2] * b[2] + a[3] * b[1] + (c2 \div 256)
        c4 == a[1] * b[4] + a[2] * b[3] + a[3] * b[2] + a[4] * b[1]
              + (c3 \div 256)
    IN  <<c1 % 256, c2 % 256, c3 % 256, c4 % 256>>

\* Unsigned 32-bit division by 8 on byte tuples.
Div8W32(a) ==
    LET q4 == a[4] \div 8
        r4 == a[4] % 8
        q3 == (r4 * 256 + a[3]) \div 8
        r3 == (r4 * 256 + a[3]) % 8
        q2 == (r3 * 256 + a[2]) \div 8
        r2 == (r3 * 256 + a[2]) % 8
        q1 == (r2 * 256 + a[1]) \div 8
    IN  <<q1, q2, q3, q4>>

\* Wrapping 16-bit multiplication on byte tuples.
MulW16(a, b) ==
    LET c1 == a[1] * b[1]
        c2 == a[1] * b[2] + a[2] * b[1] + (c1 \div 256)
    IN  <<c1 % 256, c2 % 256>>

\* Unsigned 16-bit division by 8 on byte tuples.
Div8W16(a) ==
    LET q2 == a[2] \div 8
        r2 == a[2] % 8
        q1 == (r2 * 256 + a[1]) \div 8
    IN  <<q1, q2>>

(***************************************************************************)
(* The structures of the header.                                           *)
(***************************************************************************)
\* mem::size_of::<RiffChunk>(): id: [c_char, ..4], size: c_int.
SizeOfRiffChunk == 4 * 1 + 4
\* mem::size_of::<FmtChunk>(): a RiffChunk, then u16, u16, u32, u32, u16, u16.
SizeOfFmtChunk == SizeOfRiffChunk + 2 + 2 + 4 + 4 + 2 + 2

\* ASCII codes of the chunk identifiers.
IdRIFF == <<82, 73, 70, 70>>
IdWAVE == <<87, 65, 86, 69>>
IdFmt  == <<102, 109, 116, 32>>
IdData == <<100, 97, 116, 97>>

\* `rate as u32`: truncation toward zero of a float in (-1, 2^32); any other
\* float is out of the range of u32 and the cast is undefined: the build may
\* produce any 32-bit value (enumerated: 0, the two's complement of the
\* truncated value, and 2^31).
RateAsU32(r) ==
    IF r > -2
    THEN {LE32(IF r >= 0 THEN r \div 2 ELSE 0)}
    ELSE {LE32(0), LE32(-((-r) \div 2)), <<0, 0, 0, 128>>}

\* FmtChunkOf with the channel count and the bit depth exchanged.
FmtChunkOf_Exchanged(ch, bt, r32) ==
    [ id                  |-> IdFmt,
      size                |-> LE32(SizeOfFmtChunk - SizeOfRiffChunk),
      w_format_tag        |-> LE16(1),
      n_channels          |-> LE16(bt),
      n_samples_per_sec   |-> r32,
      n_avg_bytes_per_sec |-> Div8W32(MulW32(MulW32(r32, LE32(ch)), LE32(bt))),
      n_block_align       |-> Div8W16(MulW16(MulW16(LE16(1), LE16(ch)), LE16(bt))),
      w_bits_per_sample   |-> LE16(ch) ]

\* let fmt_chunk = FmtChunk {...}, given the outcome r32 of `rate as u32`.
FmtChunkOf(ch, bt, r32) ==
    [ id                  |-> IdFmt,
      size                |-> LE32(SizeOfFmtChunk - SizeOfRiffChunk),
      w_format_tag        |-> LE16(1),
      n_channels          |-> LE16(ch),
      n_samples_per_sec   |-> r32,
      n_avg_bytes_per_sec |-> Div8W32(MulW32(MulW32(r32, LE32(ch)), LE32(bt))),
      n_block_align       |-> Div8W16(MulW16(MulW16(LE16(1), LE16(ch)), LE16(bt))),
      w_bits_per_sample   |-> LE16(bt) ]

\* DataChunkOf with the size rounded up to the RIFF word alignment.
DataChunkOf_Padded(len) ==
    [ id |-> IdData, size |-> LE32(len + (len % 2)) ]

\* let data_chunk = DataChunk {...}.
DataChunkOf(len) ==
    [ id |-> IdData, size |-> LE32(len) ]

\* let wav_header = WavHeader {...}.
WavHeaderOf(len) ==
    [ id        |-> IdRIFF,
      size      |-> AddW32(AddW32(LE32(SizeOfFmtChunk), LE32(SizeOfRiffChunk)),
                           LE32(len)),
      riff_type |-> IdWAVE ]

\* HeaderFields with the block-align write placed before the byte-rate write.
HeaderFields_AlignFirst(wh, fc, dc) ==
    << wh.id, wh.size, wh.riff_type,
       fc.id, fc.size, fc.w_format_tag, fc.n_channels, fc.n_samples_per_sec,
       fc.n_block_align, fc.n_avg_bytes_per_sec, fc.w_bits_per_sample,
       dc.id, dc.size >>

\* The buf.write_* calls of lines 722-747, in order: what each one writes.
HeaderFields(wh, fc, dc) ==
    << wh.id, wh.size, wh.riff_type,
       fc.id, fc.size, fc.w_format_tag, fc.n_channels, fc.n_samples_per_sec,
       fc.n_avg_bytes_per_sec, fc.n_block_align, fc.w_bits_per_sample,
       dc.id, dc.size >>

\* Names of those calls, as they are recorded in the trace.
HeaderNames ==
    << "riff_id", "riff_size", "riff_type",
       "fmt_id", "fmt_size", "format_tag", "channels", "sample_rate",
       "byte_rate", "block_align", "bits_per_sample",
       "data_id", "data_size" >>

NumHeaderFields == Len(HeaderNames)

NoChunk == [id |-> <<>>]

(***************************************************************************)
(* Native handles and wrapper records.                                     *)
(***************************************************************************)
\* Native sounds the engine can create.
NativeSounds == {"s1", "s2"}
\* Native sound groups: the engine's master group and one the user creates.
MasterGroup == "g0"
NativeGroups == {MasterGroup, "g1"}

\* from_ptr_first(sound): Sound {sound, can_be_deleted: true, ..}.
from_ptr_first(h) ==
    [sound |-> h, can_be_deleted |-> TRUE, live |-> TRUE,
     origin |-> "from_ptr_first", oks |-> 0]
\* FFI::wrap(s): Sound {sound: s, can_be_deleted: false, ..}.
wrap(h) ==
    [sound |-> h, can_be_deleted |-> FALSE, live |-> TRUE,
     origin |-> "wrap", oks |-> 0]
\* sound_group::from_ptr(sound_group): SoundGroup {sound_group}.
from_ptr(g) ==
    [sound_group |-> g, live |-> TRUE, oks |-> 0]

\* No wrapper has been built and the engine holds its master group only.
LifeInit ==
    /\ sounds = <<>>
    /\ groups = <<>>
    /\ created = {MasterGroup}
    /\ sub_of = [h \in NativeSounds |-> NullPtr]
    /\ group_of = [h \in NativeSounds |-> MasterGroup]
    /\ releases = [h \in NativeSounds \cup NativeGroups |-> 0]
    /\ bad_release = FALSE
    /\ last_rel = [kind |-> "none"]

\* A fresh Sound: the native slot is empty, SoundData::new() holds null.
UDInit ==
    /\ ud_slot = NullPtr
    /\ ud_field = NullPtr
    /\ ud_last = [op |-> "none"]
    /\ ud_prev = [op |-> "none"]

\* play_to_the_end has just been called.
PlayInit ==
    /\ p_pc = "play"
    /\ p_remaining = 0
    /\ p_play_res = "none"
    /\ p_polls = <<>>
    /\ p_chan_rel = 0
    /\ p_result = "none"

(***************************************************************************)
(* Initial state: save_to_wav has just been called.                        *)
(***************************************************************************)
Init ==
    /\ LifeInit
    /\ UDInit
    /\ PlayInit
    /\ pc = "get_length"
    /\ len_bytes = 0
    /\ channels = 0
    /\ bits = 0
    /\ rate = 0
    /\ len1 = 0
    /\ len2 = 0
    /\ ptr1 = NullPtr
    /\ ptr2 = NullPtr
    /\ fmt_chunk = NoChunk
    /\ data_chunk = NoChunk
    /\ wav_header = NoChunk
    /\ hdr_idx = 0
    /\ file_created = FALSE
    /\ file = <<>>
    /\ seg1 = <<>>
    /\ seg2 = <<>>
    /\ lock_calls = <<>>
    /\ lock_res = "none"
    /\ unlock_calls = <<>>
    /\ unlock_res = "none"
    /\ write_failed = FALSE
    /\ read_outside = FALSE
    /\ result = [tag |-> "none"]
    /\ query_res = <<>>
    /\ trace = <<>>

\* Err(format!("{}", e)): the error result carrying the reason e.
ErrOf(e) == [tag |-> "Err", msg |-> e]
\* Ok(true).
OkTrue == [tag |-> "Ok", val |-> TRUE]


(***************************************************************************)
(* The queries (lines 674-689).  A failing query returns at once.          *)
(***************************************************************************)
\* let len_bytes = match self.get_length(FMOD_TIMEUNIT_PCMBYTES) {...}
GetLength ==
    /\ pc = "get_length"
    /\ UNCHANGED non_wav_vars
    /\ trace' = Append(trace, "get_length")
    /\ \E r \in FmodResults :
          /\ query_res' = Append(query_res, r)
          /\ IF r = "Ok"
             THEN /\ \E l \in 0..MaxLen : len_bytes' = l
                  /\ pc' = "get_format"
                  /\ UNCHANGED result
             ELSE /\ result' = ErrOf(r)
                  /\ pc' = "done"
                  /\ UNCHANGED len_bytes
    /\ UNCHANGED <<channels, bits, rate, len1, len2, ptr1, ptr2, fmt_chunk,
                   data_chunk, wav_header, hdr_idx, file_created, file, seg1,
                   seg2, lock_calls, lock_res, unlock_calls, unlock_res,
                   write_failed, read_outside>>

\* GetFormat with the error arm falling through to the next query.
GetFormat_ErrorIgnored ==
    /\ pc = "get_format"
    /\ UNCHANGED non_wav_vars
    /\ trace' = Append(trace, "get_format")
    /\ \E r \in FmodResults :
          /\ query_res' = Append(query_res, r)
          /\ IF r = "Ok"
             THEN /\ \E c \in ChannelValues : channels' = c
                  /\ \E b \in BitsValues : bits' = b
             ELSE UNCHANGED <<channels, bits>>
    /\ pc' = "get_defaults"
    /\ UNCHANGED <<len_bytes, rate, len1, len2, ptr1, ptr2, fmt_chunk,
                   data_chunk, wav_header, hdr_idx, file_created, file, seg1,
                   seg2, lock_calls, lock_res, unlock_calls, unlock_res,
                   write_failed, read_outside, result>>

\* match ffi::FMOD_Sound_GetFormat(.., &mut channels, &mut bits) {...}
GetFormat ==
    /\ pc = "get_format"
    /\ UNCHANGED non_wav_vars
    /\ trace' = Append(trace, "get_format")
    /\ \E r \in FmodResults :
          /\ query_res' = Append(query_res, r)
          /\ IF r = "Ok"
             THEN /\ \E c \in ChannelValues : channels' = c
                  /\ \E b \in BitsValues : bits' = b
                  /\ pc' = "get_defaults"
                  /\ UNCHANGED result
             ELSE /\ result' = ErrOf(r)
                  /\ pc' = "done"
               /\ UNCHANGED <<channels, bits>>
    /\ UNCHANGED <<len_bytes, rate, len1, len2, ptr1, ptr2, fmt_chunk,
                   data_chunk, wav_header, hdr_idx, file_created, file, seg1,
                   seg2, lock_calls, lock_res, unlock_calls, unlock_res,
                   write_failed, read_outside>>

\* enums::Ok => match ffi::FMOD_Sound_GetDefaults(.., &mut rate, ..) {...}
GetDefaults ==
    /\ pc = "get_defaults"
    /\ UNCHANGED non_wav_vars
    /\ trace' = Append(trace, "get_defaults")
    /\ \E r \in FmodResults :
          /\ query_res' = Append(query_res, r)
          /\ IF r = "Ok"
             THEN /\ \E f \in RateValues : rate' = f
                  /\ pc' = "build"
                  /\ UNCHANGED result
             ELSE /\ result' = ErrOf(r)
                  /\ pc' = "done"
                  /\ UNCHANGED rate
    /\ UNCHANGED <<len_bytes, channels, bits, len1, len2, ptr1, ptr2,
                   fmt_chunk, data_chunk, wav_header, hdr_idx, file_created,
                   file, seg1, seg2, lock_calls, lock_res, unlock_calls,
                   unlock_res, write_failed, read_outside>>

(***************************************************************************)
(* The three chunk structures (lines 690-714).                             *)
(***************************************************************************)
BuildChunks ==
    /\ pc = "build"
    /\ UNCHANGED non_wav_vars
    /\ \E r32 \in RateAsU32(rate) :
          fmt_chunk' = FmtChunkOf(channels, bits, r32)
    /\ data_chunk' = DataChunkOf(len_bytes)
    /\ wav_header' = WavHeaderOf(len_bytes)
    /\ pc' = "create"
    /\ UNCHANGED query_res
    /\ UNCHANGED <<len_bytes, channels, bits, rate, len1, len2, ptr1, ptr2,
                   hdr_idx, file_created, file, seg1, seg2, lock_calls,
                   lock_res, unlock_calls, unlock_res, write_failed,
                   read_outside, result, trace>>

(***************************************************************************)
(* The sink (lines 716-720).                                               *)
(***************************************************************************)
\* let file = match File::create(..) { Ok(f) => f, Err(e) => return Err(..) }
CreateFile ==
    /\ pc = "create"
    /\ UNCHANGED non_wav_vars
    /\ trace' = Append(trace, "create")
    /\ \E ok \in BOOLEAN :
          IF ok
          THEN /\ file_created' = TRUE
               /\ pc' = "header"
               /\ UNCHANGED result
          ELSE /\ result' = ErrOf("IoError")
               /\ pc' = "done"
               /\ UNCHANGED file_created
    /\ UNCHANGED query_res
    /\ UNCHANGED <<len_bytes, channels, bits, rate, len1, len2, ptr1, ptr2,
                   fmt_chunk, data_chunk, wav_header, hdr_idx, file, seg1,
                   seg2, lock_calls, lock_res, unlock_calls, unlock_res,
                   write_failed, read_outside>>

(***************************************************************************)
(* The header (lines 722-747): thirteen fields, each written by one        *)
(* write_le_* call or, for an identifier, by four write_i8 calls.          *)
(***************************************************************************)
\* Position reached once field number n has been written.
AfterField(n) == IF n = NumHeaderFields THEN "lock" ELSE "header"

\* buf.write_*(field).unwrap() where every write returns Ok.
WriteHeaderField ==
    /\ pc = "header"
    /\ UNCHANGED non_wav_vars
    /\ hdr_idx < NumHeaderFields
    /\ file' = file \o HeaderFields(wav_header, fmt_chunk, data_chunk)[hdr_idx + 1]
    /\ hdr_idx' = hdr_idx + 1
    /\ pc' = AfterField(hdr_idx + 1)
    /\ trace' = Append(trace, HeaderNames[hdr_idx + 1])
    /\ UNCHANGED query_res
    /\ UNCHANGED <<len_bytes, channels, bits, rate, len1, len2, ptr1, ptr2,
                   fmt_chunk, data_chunk, wav_header, file_created, seg1,
                   seg2, lock_calls, lock_res, unlock_calls, unlock_res,
                   write_failed, read_outside, result>>

\* buf.write_*(field).unwrap() where a write returns Err: the task fails.  An
\* identifier is four single-byte writes, so up to three of its bytes are
\* already in the sink; an integer field is one write.
WriteHeaderFieldFails ==
    /\ pc = "header"
    /\ UNCHANGED non_wav_vars
    /\ hdr_idx < NumHeaderFields
    /\ LET field == HeaderFields(wav_header, fmt_chunk, data_chunk)[hdr_idx + 1]
           calls == IF HeaderNames[hdr_idx + 1]
                          \in {"riff_id", "riff_type", "fmt_id", "data_id"}
                    THEN Len(field) ELSE 1
       IN  \E k \in 0..(calls - 1) : file' = file \o SubSeq(field, 1, k)
    /\ write_failed' = TRUE
    /\ pc' = "panicked"
    /\ trace' = Append(trace, HeaderNames[hdr_idx + 1])
    /\ UNCHANGED query_res
    /\ UNCHANGED <<len_bytes, channels, bits, rate, len1, len2, ptr1, ptr2,
                   fmt_chunk, data_chunk, wav_header, hdr_idx, file_created,
                   seg1, seg2, lock_calls, lock_res, unlock_calls, unlock_res,
                   read_outside, result>>

(***************************************************************************)
(* Lock, payload, unlock (lines 749-757).                                  *)
(***************************************************************************)
\* LockRange with the offset off by one.
LockRange_FromOne(len) == <<1, len>>

\* Arguments of the lock call: offset and length.
LockRange(len) == <<0, len>>

\* ffi::FMOD_Sound_Lock(self.sound, 0, len_bytes, &mut ptr1, &mut ptr2,
\*                      &mut len1, &mut len2);  -- the result is dropped.
\* On Ok the library hands out the requested bytes as one or two segments;
\* on an error it leaves the four out-parameters as they were.
Lock ==
    /\ pc = "lock"
    /\ UNCHANGED non_wav_vars
    /\ trace' = Append(trace, "lock")
    /\ lock_calls' = Append(lock_calls, LockRange(len_bytes))
    /\ \E r \in FmodResults :
          /\ lock_res' = r
          /\ IF r = "Ok"
             THEN \E n1 \in (IF len_bytes = 0 THEN {0} ELSE 1..len_bytes) :
                  \E s1 \in ByteSeqs(n1) :
                  \E s2 \in ByteSeqs(len_bytes - n1) :
                     /\ seg1' = s1
                     /\ seg2' = s2
                     /\ len1' = n1
                     /\ len2' = len_bytes - n1
                     /\ ptr1' = "seg1"
                     /\ ptr2' = IF len_bytes - n1 > 0 THEN "seg2" ELSE NullPtr
             ELSE UNCHANGED <<seg1, seg2, len1, len2, ptr1, ptr2>>
    /\ pc' = "payload"
    /\ UNCHANGED query_res
    /\ UNCHANGED <<len_bytes, channels, bits, rate, fmt_chunk, data_chunk,
                   wav_header, hdr_idx, file_created, file, unlock_calls,
                   unlock_res, write_failed, read_outside, result>>

\* slice::raw::buf_as_slice(ptr1 as *const u8, len_bytes as uint, ..) is
\* defined when it covers no byte outside the segment ptr1 points to.
SliceDefined(p1, n, s1) == n = 0 \/ (p1 # NullPtr /\ n <= Len(s1))

\* The slices buf_as_slice can produce: the first n bytes at ptr1.  Bytes past
\* the end of segment 1, or behind a null pointer, are whatever the build
\* finds there.
SliceOutcomes(p1, n, s1) ==
    IF n = 0 THEN {<<>>}
    ELSE IF p1 = NullPtr THEN ByteSeqs(n)
    ELSE IF n <= Len(s1) THEN {SubSeq(s1, 1, n)}
    ELSE {s1 \o g : g \in ByteSeqs(n - Len(s1))}

\* buf_as_slice(ptr1, len_bytes, |b| { buf.write(b).unwrap(); }), write Ok.
WritePayload ==
    /\ pc = "payload"
    /\ UNCHANGED non_wav_vars
    /\ \E b \in SliceOutcomes(ptr1, len_bytes, seg1) : file' = file \o b
    /\ read_outside' = ~SliceDefined(ptr1, len_bytes, seg1)
    /\ pc' = "unlock"
    /\ trace' = Append(trace, "payload")
    /\ UNCHANGED query_res
    /\ UNCHANGED <<len_bytes, channels, bits, rate, len1, len2, ptr1, ptr2,
                   fmt_chunk, data_chunk, wav_header, hdr_idx, file_created,
                   seg1, seg2, lock_calls, lock_res, unlock_calls, unlock_res,
                   write_failed, result>>

\* The same call where buf.write returns Err after accepting k bytes: the
\* task fails inside the closure and line 755 is never reached.
WritePayloadFails ==
    /\ pc = "payload"
    /\ UNCHANGED non_wav_vars
    /\ \E b \in SliceOutcomes(ptr1, len_bytes, seg1) :
          /\ Len(b) > 0
          /\ \E k \in 0..(Len(b) - 1) : file' = file \o SubSeq(b, 1, k)
    /\ read_outside' = ~SliceDefined(ptr1, len_bytes, seg1)
    /\ write_failed' = TRUE
    /\ pc' = "panicked"
    /\ trace' = Append(trace, "payload")
    /\ UNCHANGED query_res
    /\ UNCHANGED <<len_bytes, channels, bits, rate, len1, len2, ptr1, ptr2,
                   fmt_chunk, data_chunk, wav_header, hdr_idx, file_created,
                   seg1, seg2, lock_calls, lock_res, unlock_calls, unlock_res,
                   result>>

\* The same call where reading outside segment 1 faults: the process dies.
ReadFaults ==
    /\ pc = "payload"
    /\ UNCHANGED non_wav_vars
    /\ ~SliceDefined(ptr1, len_bytes, seg1)
    /\ read_outside' = TRUE
    /\ pc' = "crashed"
    /\ trace' = Append(trace, "payload")
    /\ UNCHANGED query_res
    /\ UNCHANGED <<len_bytes, channels, bits, rate, len1, len2, ptr1, ptr2,
                   fmt_chunk, data_chunk, wav_header, hdr_idx, file_created,
                   file, seg1, seg2, lock_calls, lock_res, unlock_calls,
                   unlock_res, write_failed, result>>

\* ffi::FMOD_Sound_Unlock(self.sound, ptr1, ptr2, len1, len2);  -- the result
\* is dropped -- followed by Ok(true).
Unlock ==
    /\ pc = "unlock"
    /\ UNCHANGED non_wav_vars
    /\ trace' = Append(trace, "unlock")
    /\ unlock_calls' = Append(unlock_calls, <<ptr1, ptr2, len1, len2>>)
    /\ \E r \in FmodResults : unlock_res' = r
    /\ result' = OkTrue
    /\ pc' = "done"
    /\ UNCHANGED query_res
    /\ UNCHANGED <<len_bytes, channels, bits, rate, len1, len2, ptr1, ptr2,
                   fmt_chunk, data_chunk, wav_header, hdr_idx, file_created,
                   file, seg1, seg2, lock_calls, lock_res, write_failed,
                   read_outside>>

Next ==
    \/ GetLength
    \/ GetFormat
    \/ GetDefaults
    \/ BuildChunks
    \/ CreateFile
    \/ WriteHeaderField
    \/ WriteHeaderFieldFails
    \/ Lock
    \/ WritePayload
    \/ WritePayloadFails
    \/ ReadFaults
    \/ Unlock

Spec == Init /\ [][Next]_vars


(***************************************************************************)
(* Vocabulary of the properties.                                           *)
(***************************************************************************)
\* Bytes [off, off + n) of the output.
FileBytes(off, n) == SubSeq(file, off + 1, off + n)
\* Length of the canonical header.
HeaderSize == Len(IdRIFF) + 4 + Len(IdWAVE) + Len(IdFmt) + 4 + 16 + Len(IdData) + 4
\* save_to_wav has left: by returning or by a task failure.
Exited == pc \in {"done", "panicked"}
\* The three queries all returned Ok.
FormatReported == Len(query_res) = 3 /\ query_res[3] = "Ok"
\* The descriptor the source reported is not a canonical PCM format.
InvalidFormat == channels = 0 \/ rate <= 0 \/ bits \notin {8, 16, 24, 32}
\* The calls of a complete run, in order.
FullTrace ==
    <<"get_length", "get_format", "get_defaults", "create">>
    \o HeaderNames \o <<"lock", "payload", "unlock">>

(***************************************************************************)
(* C1: for every payload length L, the RIFF size field at offset 4 is      *)
(* 36 + L.  The code writes size_of(FmtChunk) + size_of(RiffChunk) + L,    *)
(* which is 32 + L: this formula is violated.  C1 to C4, C6 and C7 are     *)
(* stated for the valid formats, so that no violation rests on an invalid  *)
(* descriptor or on an out-of-range cast of the rate.                      *)
(***************************************************************************)
C1_RiffSizeIs36PlusLen ==
    (hdr_idx >= 2 /\ ~InvalidFormat) =>
        DecodeI32(FileBytes(4, 4)) = 36 + len_bytes

(***************************************************************************)
(* C2: on every exit path unlock has been called exactly once per lock     *)
(* call, with the two pointers and two lengths the lock returned.  A       *)
(* failing payload write leaves by task failure without unlocking: this    *)
(* formula is violated.  It is stated for the runs whose payload read      *)
(* stayed inside segment 1, so that the violation rests on defined         *)
(* behaviour only.                                                         *)
(***************************************************************************)
C2_UnlockOncePerLock ==
    (Exited /\ ~read_outside /\ ~InvalidFormat) =>
        /\ Len(unlock_calls) = Len(lock_calls)
        /\ \A i \in 1..Len(unlock_calls) :
              unlock_calls[i] = <<ptr1, ptr2, len1, len2>>

(***************************************************************************)
(* C3: after a successful lock the payload written is segment 1 followed   *)
(* by segment 2, and no byte outside the two segments is read.  The code   *)
(* reads len_bytes bytes at ptr1 and never looks at ptr2: this formula is  *)
(* violated when segment 2 is not empty.                                   *)
(***************************************************************************)
C3_PayloadIsBothSegments ==
    (lock_res = "Ok" /\ pc \in {"unlock", "done"} /\ ~InvalidFormat) =>
        /\ FileBytes(HeaderSize, Len(file) - HeaderSize) = seg1 \o seg2
        /\ ~read_outside

(***************************************************************************)
(* C4: when the lock call returns an error, no payload byte is written     *)
(* and save_to_wav returns an error.  The code drops the lock result and   *)
(* returns Ok(true): this formula is violated.  It is stated for the runs  *)
(* whose payload read is defined (an empty payload), so that the violation *)
(* rests on defined behaviour only.                                        *)
(***************************************************************************)
C4_LockErrorFails ==
    (lock_res \in FmodErrors /\ ~read_outside /\ ~InvalidFormat) =>
        /\ Len(file) <= HeaderSize
        /\ pc = "done" => result.tag = "Err"

(***************************************************************************)
(* C5: an invalid format descriptor makes the call fail with InvalidFormat *)
(* before any I/O: no file created, nothing written, no lock.  The code    *)
(* validates nothing: this formula is violated.                            *)
(***************************************************************************)
C5_InvalidFormatFailsFast ==
    (FormatReported /\ InvalidFormat) =>
        /\ \A i \in 1..Len(trace) : trace[i] # "create"
        /\ ~file_created
        /\ file = <<>>
        /\ lock_calls = <<>>
        /\ pc = "done" => result = ErrOf("InvalidFormat")

(***************************************************************************)
(* C6: success is returned only if the lock, every write and the unlock    *)
(* completed without error.  The code drops the results of lock and        *)
(* unlock: this formula is violated (on runs whose payload read is         *)
(* defined).                                                               *)
(***************************************************************************)
C6_OkOnlyIfAllSucceeded ==
    (result = OkTrue /\ ~read_outside /\ ~InvalidFormat) =>
        /\ lock_res = "Ok"
        /\ unlock_res = "Ok"
        /\ ~write_failed

(***************************************************************************)
(* C7: a failing write to the sink is returned to the caller as an error   *)
(* value, not as a task failure.  The code unwraps every write result:     *)
(* this formula is violated (on runs whose payload read is defined).       *)
(***************************************************************************)
C7_WriteFailureReturnsErr ==
    (write_failed /\ ~read_outside /\ ~InvalidFormat) =>
        (pc = "done" /\ result.tag = "Err")

(***************************************************************************)
(* C8: when the length, format or default-frequency query fails, the call  *)
(* returns an error carrying that query's error code and stops at once:    *)
(* no later query or call is made, no file is created, nothing is          *)
(* written, and the source is neither locked nor unlocked.                 *)
(***************************************************************************)
C8_QueryFailureStops ==
    \A i \in 1..Len(query_res) :
        query_res[i] \in FmodErrors =>
            /\ pc = "done"
            /\ result = ErrOf(query_res[i])
            /\ Len(query_res) = i
            /\ trace = SubSeq(FullTrace, 1, i)
            /\ ~file_created
            /\ file = <<>>
            /\ lock_calls = <<>>
            /\ unlock_calls = <<>>

\* The default-frequency query, the last of the three, has failed.
C8_Witness ==
    /\ Len(query_res) = 3
    /\ query_res[3] \in FmodErrors
    /\ pc = "done"

(***************************************************************************)
(* C9: a run that returns success made its calls in this order: the three  *)
(* queries, file creation, the thirteen header writes, the lock of         *)
(* [0, L) with L the queried length, the payload read and write, the       *)
(* unlock; and in every state no header write follows the lock and the     *)
(* payload read lies after the lock and before the unlock.                 *)
(***************************************************************************)
C9_CallOrder ==
    /\ result = OkTrue =>
          /\ trace = FullTrace
          /\ lock_calls = << <<0, len_bytes>> >>
          /\ Len(unlock_calls) = 1
    /\ \A i, j \in 1..Len(trace) :
          /\ (trace[i] = "lock" /\ j > i) => trace[j] \in {"payload", "unlock"}
          /\ (trace[i] = "payload" /\ j < i) => trace[j] # "unlock"
          /\ (trace[i] = "payload") => \E k \in 1..(i - 1) : trace[k] = "lock"

\* A successful run over a non-empty payload handed out in two segments.
C9_Witness ==
    /\ result = OkTrue
    /\ lock_res = "Ok"
    /\ len2 > 0

(***************************************************************************)
(* C10: once the header is written, the first 44 bytes of the output are   *)
(* 'RIFF', size, 'WAVE', 'fmt ', 16, 1, channels, sample rate, byte rate,  *)
(* block align, bits per sample, 'data', data size at offsets 0, 4, 8, 12, *)
(* 16, 20, 22, 24, 28, 32, 34, 36, 40; exactly 44 bytes precede the        *)
(* payload, and fewer than 44 are present while the header is incomplete.  *)
(***************************************************************************)
C10_HeaderLayout ==
    /\ hdr_idx = NumHeaderFields =>
          /\ Len(file) >= 44
          /\ FileBytes(0, 4) = IdRIFF
          /\ FileBytes(4, 4) = wav_header.size
          /\ FileBytes(8, 4) = IdWAVE
          /\ FileBytes(12, 4) = IdFmt
          /\ DecodeI32(FileBytes(16, 4)) = 16
          /\ DecodeU16(FileBytes(20, 2)) = 1
          /\ FileBytes(22, 2) = LE16(channels)
          /\ FileBytes(24, 4) = fmt_chunk.n_samples_per_sec
          /\ FileBytes(28, 4) = fmt_chunk.n_avg_bytes_per_sec
          /\ FileBytes(32, 2) = fmt_chunk.n_block_align
          /\ FileBytes(34, 2) = LE16(bits)
          /\ FileBytes(36, 4) = IdData
          /\ FileBytes(40, 4) = data_chunk.size
    /\ pc = "lock" => Len(file) = 44
    /\ pc = "payload" => Len(file) = 44
    /\ hdr_idx < NumHeaderFields => Len(file) < 44

\* The header of a stereo 16-bit sound with a non-empty payload is complete.
C10_Witness ==
    /\ pc = "lock"
    /\ channels = 2
    /\ bits = 16
    /\ len_bytes > 0


(***************************************************************************)
(* Exact (unbounded) arithmetic of the format descriptor, on 8-byte        *)
(* little-endian tuples: wide enough for every product of the values       *)
(* above, so that nothing wraps.                                           *)
(***************************************************************************)
\* A natural number as an 8-byte little-endian tuple.
Wide(n) == LE32(n) \o <<0, 0, 0, 0>>
\* A 2- or 4-byte field as an 8-byte tuple.
Widen(b) == b \o [i \in 1..(8 - Len(b)) |-> 0]

RECURSIVE WideColumn(_, _, _, _)
\* Sum of a[i] * b[k + 1 - i] for i in 1..i0.
WideColumn(a, b, k, i0) ==
    IF i0 = 0 THEN 0 ELSE a[i0] * b[k + 1 - i0] + WideColumn(a, b, k, i0 - 1)

RECURSIVE WideTotal(_, _, _)
\* Column k of the product a * b, with the carry of the lower columns.
WideTotal(a, b, k) ==
    IF k = 0 THEN 0
    ELSE WideColumn(a, b, k, k) + (WideTotal(a, b, k - 1) \div 256)

\* The product of two 8-byte tuples (exact while it is below 2^64).
WideMul(a, b) == [k \in 1..8 |-> WideTotal(a, b, k) % 256]

RECURSIVE WideRem8(_, _)
\* Remainder modulo 8 of the bytes k..8 of a.
WideRem8(a, k) == IF k > 8 THEN 0 ELSE (WideRem8(a, k + 1) * 256 + a[k]) % 8

\* The quotient of an 8-byte tuple by 8.
WideDiv8(a) == [k \in 1..8 |-> (WideRem8(a, k + 1) * 256 + a[k]) \div 8]

\* The tuple is below 2^(8 * n): it fits a field of n bytes.
FitsBytes(a, n) == \A k \in (n + 1)..8 : a[k] = 0

\* sample_rate_hz of the descriptor: the whole hertz of the reported rate.
SampleRateHz == rate \div 2
\* The reported rate is a whole number of hertz.
WholeRate == rate % 2 = 0
\* byte_rate = sample_rate_hz * channel_count * bits_per_sample / 8, exactly.
ExactByteRate ==
    WideDiv8(WideMul(WideMul(Wide(SampleRateHz), Wide(channels)), Wide(bits)))
\* block_align = channel_count * bits_per_sample / 8, exactly.
ExactBlockAlign == WideDiv8(WideMul(Wide(channels), Wide(bits)))

(***************************************************************************)
(* C11: for every payload length L, odd and zero included, the data size   *)
(* field at offset 40 is L, and once the payload is written the output is  *)
(* 44 + L bytes long: L payload bytes follow the header and no pad byte.   *)
(***************************************************************************)
C11_DataSizeAndLength ==
    /\ hdr_idx = NumHeaderFields =>
          /\ FileBytes(40, 4) = LE32(len_bytes)
          /\ DecodeI32(FileBytes(40, 4)) = len_bytes
    /\ (hdr_idx = NumHeaderFields /\ pc \in {"unlock", "done"}) =>
          Len(file) = 44 + len_bytes

\* A successful run over a payload of odd length.
C11_Witness ==
    /\ result = OkTrue
    /\ len_bytes % 2 = 1
    /\ Len(file) = 44 + len_bytes

(***************************************************************************)
(* C12: for every valid format the ByteRate field at offset 28 is the      *)
(* exact integer sample_rate_hz * channel_count * bits_per_sample / 8.     *)
(* Stated for the formats whose exact byte rate fits the 32-bit field.     *)
(* The code multiplies in 32 bits before it divides, so the product wraps  *)
(* at 2^32: this formula is violated.                                      *)
(***************************************************************************)
C12_ByteRateExact ==
    (hdr_idx = NumHeaderFields /\ ~InvalidFormat /\ FitsBytes(ExactByteRate, 4)) =>
        Widen(FileBytes(28, 4)) = ExactByteRate

(***************************************************************************)
(* C13: for every valid format the BlockAlign field at offset 32 is the    *)
(* exact integer channel_count * bits_per_sample / 8, and ByteRate is      *)
(* SampleRate * BlockAlign.  Stated for the formats whose exact block      *)
(* align fits the 16-bit field, and its second half for the formats whose  *)
(* 32-bit byte-rate product does not wrap.  The code multiplies in 16 bits *)
(* before it divides, so the product wraps at 2^16: this formula is        *)
(* violated.                                                               *)
(***************************************************************************)
C13_BlockAlignExact ==
    (hdr_idx = NumHeaderFields /\ ~InvalidFormat /\ FitsBytes(ExactBlockAlign, 2)) =>
        /\ Widen(FileBytes(32, 2)) = ExactBlockAlign
        /\ FitsBytes(WideMul(WideMul(Wide(SampleRateHz), Wide(channels)),
                             Wide(bits)), 4) =>
              Widen(FileBytes(28, 4))
                  = WideMul(Widen(FileBytes(24, 4)), Widen(FileBytes(32, 2)))

MaxSounds == 3
MaxGroups == 1

\* What is left in the list of a wrapper whose life has ended: its memory is
\* no longer the program's, and no operation reaches it.
DroppedSound ==
    [sound |-> NullPtr, can_be_deleted |-> FALSE, live |-> FALSE,
     origin |-> "dropped", oks |-> 0]
DroppedGroup == [sound_group |-> NullPtr, live |-> FALSE, oks |-> 0]

\* Indices of the wrappers that have not been dropped.
LiveSounds == {i \in 1..Len(sounds) : sounds[i].live}
LiveGroups == {k \in 1..Len(groups) : groups[k].live}

\* The native call can succeed on h: h is an object the engine still holds.
NativeAlive(h) == h # NullPtr /\ h \in created /\ releases[h] = 0

\* The engine, through the links subs and grps, or a live wrapper other than
\* the one excluded, still refers to the native object h.
Referred(h, subs, grps, skipSound, skipGroup) ==
    \/ \E q \in NativeSounds :
          NativeAlive(q) /\ q # h /\ (subs[q] = h \/ grps[q] = h)
    \/ \E j \in LiveSounds : j # skipSound /\ sounds[j].sound = h
    \/ \E j \in LiveGroups : j # skipGroup /\ groups[j].sound_group = h

\* Sound::release: if self.can_be_deleted && self.sound.is_not_null().
SoundCallsNative(w) == w.can_be_deleted /\ w.sound # NullPtr

\* SoundReleased that leaves the handle in place after a successful release.
SoundReleased_KeepsHandle(w, r) ==
    IF SoundCallsNative(w) /\ r = "Ok"
    THEN [w EXCEPT !.oks = @ + 1]
    ELSE w

\* Sound::release: the wrapper after the call, r being what
\* FMOD_Sound_Release returns if it is called.
SoundReleased(w, r) ==
    IF SoundCallsNative(w) /\ r = "Ok"
    THEN [w EXCEPT !.sound = NullPtr, !.oks = @ + 1]
    ELSE w

\* Sound::release: the value returned.
SoundReleaseRet(w, r) == IF SoundCallsNative(w) THEN r ELSE "Ok"

\* SoundGroup::release: if self.sound_group != ::std::ptr::null().
GroupCallsNative(g) == g.sound_group # NullPtr

\* SoundGroup::release: the wrapper after the call.
GroupReleased(g, r) ==
    IF GroupCallsNative(g) /\ r = "Ok"
    THEN [g EXCEPT !.sound_group = NullPtr, !.oks = @ + 1]
    ELSE g

\* SoundGroup::release: the value returned.
GroupReleaseRet(g, r) == IF GroupCallsNative(g) THEN r ELSE "Ok"

\* self.release() on sounds[i], followed by the end of the wrapper's life if
\* dropped; subs and grps are the engine's links at that moment.
ReleaseSoundAt(i, r, dropped, subs, grps) ==
    LET w      == sounds[i]
        native == SoundCallsNative(w)
        freed  == native /\ r = "Ok"
    IN  /\ sounds' = [sounds EXCEPT
                         ![i] = IF dropped THEN DroppedSound
                                ELSE SoundReleased(w, r)]
        /\ releases' = IF freed THEN [releases EXCEPT ![w.sound] = @ + 1]
                       ELSE releases
        /\ bad_release' = (bad_release
                           \/ (freed /\ Referred(w.sound, subs, grps, i, 0)))
        /\ last_rel' = [kind   |-> "sound",
                        before |-> w,
                        after  |-> SoundReleased(w, r),
                        native |-> native,
                        res    |-> IF native THEN r ELSE "none",
                        ret    |-> SoundReleaseRet(w, r)]

\* self.release() on groups[k], followed by the end of the wrapper's life if
\* dropped.
ReleaseGroupAt(k, r, dropped, subs, grps) ==
    LET g      == groups[k]
        native == GroupCallsNative(g)
        freed  == native /\ r = "Ok"
    IN  /\ groups' = [groups EXCEPT
                         ![k] = IF dropped THEN DroppedGroup
                                ELSE GroupReleased(g, r)]
        /\ releases' = IF freed THEN [releases EXCEPT ![g.sound_group] = @ + 1]
                       ELSE releases
        /\ bad_release' = (bad_release
                           \/ (freed /\ Referred(g.sound_group, subs, grps, 0, k)))
        /\ last_rel' = [kind   |-> "group",
                        before |-> g,
                        after  |-> GroupReleased(g, r),
                        native |-> native,
                        res    |-> IF native THEN r ELSE "none",
                        ret    |-> GroupReleaseRet(g, r)]

\* The engine creates a sound and hands it out through from_ptr_first.
CreateSound ==
    /\ Len(sounds) < MaxSounds
    /\ \E h \in NativeSounds \ created :
          /\ created' = created \cup {h}
          /\ sounds' = Append(sounds, from_ptr_first(h))
    /\ UNCHANGED <<groups, sub_of, group_of, releases, bad_release, last_rel>>
    /\ UNCHANGED <<wav_vars, ud_vars, play_vars>>

\* The engine creates a sound group and hands it out through from_ptr.
CreateGroup ==
    /\ Len(groups) < MaxGroups
    /\ \E g \in NativeGroups \ created :
          /\ created' = created \cup {g}
          /\ groups' = Append(groups, from_ptr(g))
    /\ UNCHANGED <<sounds, sub_of, group_of, releases, bad_release, last_rel>>
    /\ UNCHANGED <<wav_vars, ud_vars, play_vars>>

\* Sound::get_sub_sound: Ok(ffi::FFI::wrap(sub_sound)) when the native call
\* returns Ok; an error result builds nothing.
GetSubSound ==
    /\ Len(sounds) < MaxSounds
    /\ \E i \in LiveSounds :
          /\ NativeAlive(sounds[i].sound)
          /\ sub_of[sounds[i].sound] # NullPtr
          /\ sounds' = Append(sounds, wrap(sub_of[sounds[i].sound]))
    /\ UNCHANGED <<groups, created, sub_of, group_of, releases, bad_release,
                   last_rel>>
    /\ UNCHANGED <<wav_vars, ud_vars, play_vars>>

\* Sound::set_sub_sound(&self, index, sub_sound: Sound): the native call, then
\* sub_sound goes out of scope and is dropped.
SetSubSound ==
    /\ \E i \in LiveSounds : \E j \in LiveSounds \ {i} :
       \E r \in FmodResults : \E r2 \in FmodResults :
          LET h    == sounds[i].sound
              subs == IF r = "Ok" THEN [sub_of EXCEPT ![h] = sounds[j].sound]
                      ELSE sub_of
          IN  /\ r = "Ok" => (NativeAlive(h) /\ NativeAlive(sounds[j].sound))
              /\ sub_of' = subs
              /\ ReleaseSoundAt(j, r2, TRUE, subs, group_of)
    /\ UNCHANGED <<groups, created, group_of>>
    /\ UNCHANGED <<wav_vars, ud_vars, play_vars>>

\* Sound::get_sound_group: Ok(ffi::FFI::wrap(sound_group)) when the native
\* call returns Ok; an error result builds nothing.
GetSoundGroup ==
    /\ Len(groups) < MaxGroups
    /\ \E i \in LiveSounds :
          /\ NativeAlive(sounds[i].sound)
          /\ groups' = Append(groups, from_ptr(group_of[sounds[i].sound]))
    /\ UNCHANGED <<sounds, created, sub_of, group_of, releases, bad_release,
                   last_rel>>
    /\ UNCHANGED <<wav_vars, ud_vars, play_vars>>

\* Sound::set_sound_group(&self, sound_group: SoundGroup): the native call,
\* then sound_group goes out of scope and is dropped.
SetSoundGroup ==
    /\ \E i \in LiveSounds : \E k \in LiveGroups :
       \E r \in FmodResults : \E r2 \in FmodResults :
          LET h    == sounds[i].sound
              grps == IF r = "Ok"
                      THEN [group_of EXCEPT ![h] = groups[k].sound_group]
                      ELSE group_of
          IN  /\ r = "Ok" => (NativeAlive(h) /\ NativeAlive(groups[k].sound_group))
              /\ group_of' = grps
              /\ ReleaseGroupAt(k, r2, TRUE, sub_of, grps)
    /\ UNCHANGED <<sounds, created, sub_of>>
    /\ UNCHANGED <<wav_vars, ud_vars, play_vars>>

\* Sound::release called by the user.
SoundRelease ==
    /\ \E i \in LiveSounds : \E r \in FmodResults :
          ReleaseSoundAt(i, r, FALSE, sub_of, group_of)
    /\ UNCHANGED <<groups, created, sub_of, group_of>>
    /\ UNCHANGED <<wav_vars, ud_vars, play_vars>>

\* impl Drop for Sound: self.release().
SoundDrop ==
    /\ \E i \in LiveSounds : \E r \in FmodResults :
          ReleaseSoundAt(i, r, TRUE, sub_of, group_of)
    /\ UNCHANGED <<groups, created, sub_of, group_of>>
    /\ UNCHANGED <<wav_vars, ud_vars, play_vars>>

\* SoundGroup::release called by the user.
GroupRelease ==
    /\ \E k \in LiveGroups : \E r \in FmodResults :
          ReleaseGroupAt(k, r, FALSE, sub_of, group_of)
    /\ UNCHANGED <<sounds, created, sub_of, group_of>>
    /\ UNCHANGED <<wav_vars, ud_vars, play_vars>>

\* impl Drop for SoundGroup: self.release().
GroupDrop ==
    /\ \E k \in LiveGroups : \E r \in FmodResults :
          ReleaseGroupAt(k, r, TRUE, sub_of, group_of)
    /\ UNCHANGED <<sounds, created, sub_of, group_of>>
    /\ UNCHANGED <<wav_vars, ud_vars, play_vars>>

LifeNext ==
    \/ CreateSound
    \/ CreateGroup
    \/ GetSubSound
    \/ SetSubSound
    \/ GetSoundGroup
    \/ SetSoundGroup
    \/ SoundRelease
    \/ SoundDrop
    \/ GroupRelease
    \/ GroupDrop

SpecLife == Init /\ [][LifeNext]_vars

(***************************************************************************)
(* C15: across any sequence of wrapper operations no native handle is      *)
(* released more than once, and none is released while the engine or       *)
(* another live wrapper still refers to it.  A Sound passed by value to    *)
(* set_sub_sound and a SoundGroup passed by value to set_sound_group are   *)
(* dropped, and so released, at the end of the call, and every SoundGroup  *)
(* wrapper releases its group: this formula is violated.                   *)
(***************************************************************************)
C15_NoEarlyOrDoubleRelease ==
    /\ \A h \in NativeSounds \cup NativeGroups : releases[h] <= 1
    /\ ~bad_release

(***************************************************************************)
(* C16: Sound::release calls the native release exactly when the wrapper   *)
(* was built by from_ptr_first and its handle is not null; a native Ok     *)
(* nulls the handle and returns Ok; a native error leaves the handle and   *)
(* is returned; without a native call the result is Ok and the handle is   *)
(* untouched; no wrapper has more than one successful native release and   *)
(* a wrapper built by wrap has none.  SoundGroup::release does the same    *)
(* for any handle that is not null.                                        *)
(***************************************************************************)
C16_ReleaseDiscipline ==
    /\ last_rel.kind = "sound" =>
          LET b == last_rel.before
              a == last_rel.after
          IN  /\ last_rel.native
                    <=> (b.origin = "from_ptr_first" /\ b.sound # NullPtr)
              /\ ~last_rel.native =>
                    (last_rel.ret = "Ok" /\ a.sound = b.sound)
              /\ (last_rel.native /\ last_rel.res = "Ok") =>
                    (a.sound = NullPtr /\ last_rel.ret = "Ok")
              /\ (last_rel.native /\ last_rel.res # "Ok") =>
                    (a.sound = b.sound /\ last_rel.ret = last_rel.res)
    /\ last_rel.kind = "group" =>
          LET b == last_rel.before
              a == last_rel.after
          IN  /\ last_rel.native <=> b.sound_group # NullPtr
              /\ ~last_rel.native =>
                    (last_rel.ret = "Ok" /\ a.sound_group = b.sound_group)
              /\ (last_rel.native /\ last_rel.res = "Ok") =>
                    (a.sound_group = NullPtr /\ last_rel.ret = "Ok")
              /\ (last_rel.native /\ last_rel.res # "Ok") =>
                    (a.sound_group = b.sound_group /\ last_rel.ret = last_rel.res)
    /\ last_rel.kind # "none" => last_rel.after.oks <= 1
    /\ \A i \in 1..Len(sounds) :
          /\ sounds[i].oks <= 1
          /\ sounds[i].origin = "wrap" => sounds[i].oks = 0
          /\ sounds[i].oks = 1 => sounds[i].sound = NullPtr
    /\ \A k \in 1..Len(groups) :
          /\ groups[k].oks <= 1
          /\ groups[k].oks = 1 => groups[k].sound_group = NullPtr

\* An owning Sound, already released once, is released again: no native call.
C16_Witness ==
    /\ last_rel.kind = "sound"
    /\ last_rel.before.oks = 1
    /\ ~last_rel.native
    /\ last_rel.ret = "Ok"


(***************************************************************************)
(* User data (sound.rs, lines 622-667).  The native user-data slot of the  *)
(* sound holds a pointer: null, or the address of self.user_data (the      *)
(* only value this wrapper ever stores in it).  ud_field is                *)
(* self.user_data.user_data.                                               *)
(***************************************************************************)
UserData == {"x", "y"}
SelfData == "self_data"

\* FMOD_Sound_SetUserData(self.sound, p): the slot after the call returned s.
SlotAfter(s, p) == IF s = "Ok" THEN p ELSE ud_slot

\* Sound::set_user_data: what is stored in the user_data field, g being the
\* result of FMOD_Sound_GetUserData.
FieldAfterSet(g, x) ==
    IF g = "Ok" /\ ud_slot = NullPtr THEN NullPtr ELSE x

\* Sound::get_user_data: the value returned, g being the result of
\* FMOD_Sound_GetUserData.
GetResult(g) ==
    IF g = "Ok"
    THEN IF ud_slot # NullPtr
         THEN [ok |-> TRUE, val |-> ud_field]
         ELSE [ok |-> FALSE, val |-> "Ok"]
    ELSE [ok |-> FALSE, val |-> g]

\* Sound::set_user_data(x).
SetUserData ==
    /\ \E x \in UserData : \E g \in FmodResults : \E s \in FmodResults :
          /\ ud_field' = FieldAfterSet(g, x)
          /\ ud_slot' = SlotAfter(s, SelfData)
          /\ ud_last' = [op |-> "set", arg |-> x, native |-> g, ret |-> s,
                         ok |-> s = "Ok", val |-> NullPtr,
                         prior |-> ud_slot]
    /\ ud_prev' = ud_last
    /\ UNCHANGED <<wav_vars, life_vars, play_vars>>

\* Sound::get_user_data().
GetUserData ==
    /\ \E g \in FmodResults :
          ud_last' = [op |-> "get", arg |-> NullPtr, native |-> g, ret |-> g,
                      ok |-> GetResult(g).ok, val |-> GetResult(g).val,
                      prior |-> ud_slot]
    /\ ud_prev' = ud_last
    /\ UNCHANGED <<ud_slot, ud_field>>
    /\ UNCHANGED <<wav_vars, life_vars, play_vars>>

UDNext ==
    \/ SetUserData
    \/ GetUserData

SpecUD == Init /\ [][UDNext]_vars

(***************************************************************************)
(* C17: when set_user_data(x) has returned Ok and the next call is         *)
(* get_user_data, whose native query succeeds, get_user_data returns a     *)
(* reference to x, whatever the slot held before the set; and              *)
(* get_user_data never returns Ok with a reference built from a null       *)
(* pointer.  On a sound whose slot was never set, set_user_data stores     *)
(* null: this formula is violated.                                         *)
(***************************************************************************)
C17_UserDataRoundTrip ==
    /\ (/\ ud_last.op = "get"
        /\ ud_last.native = "Ok"
        /\ ud_prev.op = "set"
        /\ ud_prev.ret = "Ok")
          => (ud_last.ok /\ ud_last.val = ud_prev.arg)
    /\ (ud_last.op = "get" /\ ud_last.ok) => ud_last.val # NullPtr


(***************************************************************************)
(* play_to_the_end (sound.rs, lines 238-258) over play (lines 210-222).    *)
(* The channel started by play answers "playing" to p_remaining more       *)
(* polls, one sleep of 30 ms passing between two polls, unless a poll      *)
(* returns an error; a channel that would play for ever is outside this    *)
(* machine.                                                                *)
(***************************************************************************)
MaxPlaying == 8

\* The answers chan.is_playing() can give: Err(e), or Ok(b) with b telling
\* whether the channel is still playing.
PollAnswers ==
    FmodErrors \cup {IF p_remaining > 0 THEN "true" ELSE "false"}

\* AfterPoll that sleeps and polls again after Err(e).
AfterPoll_ErrorRetries(a) ==
    IF a = "false" THEN "release" ELSE "sleep"

\* Where the loop goes after the answer a of chan.is_playing().
AfterPoll(a) ==
    CASE a = "true"  -> "sleep"
      [] a = "false" -> "release"
      [] OTHER       -> "done"

\* match self.play(): get_system_object and FMOD_System_PlaySound, r being
\* the error of the first or the result of the second.
Play ==
    /\ p_pc = "play"
    /\ \E r \in FmodResults :
          /\ p_play_res' = r
          /\ IF r = "Ok"
             THEN /\ p_pc' = "poll"
                  /\ p_remaining' \in 0..MaxPlaying
                  /\ UNCHANGED p_result
             ELSE /\ p_pc' = "done"
                  /\ p_result' = r
                  /\ UNCHANGED p_remaining
    /\ UNCHANGED <<p_polls, p_chan_rel>>
    /\ UNCHANGED <<wav_vars, life_vars, ud_vars>>

\* match chan.is_playing().
Poll ==
    /\ p_pc = "poll"
    /\ \E a \in PollAnswers :
          /\ p_polls' = Append(p_polls, a)
          /\ p_pc' = AfterPoll(a)
          /\ p_result' = IF a \in FmodErrors /\ AfterPoll(a) = "done"
                         THEN a ELSE p_result
    /\ UNCHANGED <<p_remaining, p_play_res, p_chan_rel>>
    /\ UNCHANGED <<wav_vars, life_vars, ud_vars>>

\* sleep(Duration::milliseconds(30)), the channel playing on meanwhile.
Sleep ==
    /\ p_pc = "sleep"
    /\ p_remaining' = IF p_remaining > 0 THEN p_remaining - 1 ELSE 0
    /\ p_pc' = "poll"
    /\ UNCHANGED <<p_play_res, p_polls, p_chan_rel, p_result>>
    /\ UNCHANGED <<wav_vars, life_vars, ud_vars>>

\* chan.release(); enums::Ok
ReleaseChannel ==
    /\ p_pc = "release"
    /\ p_chan_rel' = p_chan_rel + 1
    /\ p_result' = "Ok"
    /\ p_pc' = "done"
    /\ UNCHANGED <<p_remaining, p_play_res, p_polls>>
    /\ UNCHANGED <<wav_vars, life_vars, ud_vars>>

PlayNext ==
    \/ Play
    \/ Poll
    \/ Sleep
    \/ ReleaseChannel

\* One thread runs the call: a step that can be taken is taken.
SpecPlay == Init /\ [][PlayNext]_vars /\ WF_vars(PlayNext)

\* What holds of play_to_the_end at every moment.
PlaySafe ==
    /\ p_pc = "done" <=> p_result # "none"
    /\ p_result = "Ok" =>
          /\ p_play_res = "Ok"
          /\ Len(p_polls) >= 1
          /\ p_polls[Len(p_polls)] = "false"
          /\ p_chan_rel = 1
    /\ p_chan_rel <= 1
    /\ p_chan_rel = 1 => p_result = "Ok"
    /\ p_play_res \in FmodErrors =>
          (p_pc = "done" /\ p_result = p_play_res /\ p_polls = <<>>)
    /\ \A i \in 1..Len(p_polls) :
          /\ p_polls[i] \in FmodErrors =>
                (i = Len(p_polls) /\ p_pc = "done" /\ p_result = p_polls[i])
          /\ p_polls[i] = "false" => i = Len(p_polls)

(***************************************************************************)
(* C18: play_to_the_end returns Ok only after is_playing has answered      *)
(* false on the channel play started, and then has released that channel   *)
(* exactly once; when play fails, or a poll fails, that error is returned  *)
(* at once, no poll following it; and, the channel stopping after          *)
(* finitely many polls or a poll failing, the call returns.                *)
(***************************************************************************)
C18_PlayToTheEnd == []PlaySafe /\ <>(p_pc = "done")

\* The channel played through some polls, stopped, was released, Ok returned.
C18_Witness ==
    /\ p_pc = "done"
    /\ p_result = "Ok"
    /\ Len(p_polls) >= 3
    /\ p_polls[1] = "true"
    /\ p_chan_rel = 1

====
